---- MODULE Spec2Model ----
(***************************************************************************)
(* A model of SecurityRatConnector (securityratconnector.py): the generic  *)
(* dispatch operations get/post/put/delete, the response cache in front of *)
(* get (getCached), and the collection-category helpers built on them.     *)
(*                                                                         *)
(* The remote SecurityRat service is the environment: it holds one         *)
(* collection of records and answers every request with a status code, a   *)
(* raw content and, possibly, a rotated CSRF-TOKEN cookie.                 *)
(***************************************************************************)
EXTENDS Integers, Sequences, FiniteSets, TLC

VARIABLES
    cached,     \* self.cached, fixed at construction
    cache,      \* self.cache: endpoint -> entry (no key, None, or a body)
    headers,    \* self.headers['X-CSRF-TOKEN']
    cookies,    \* self.session.cookies: the CSRF-TOKEN cookie, if any
    server,     \* the remote collection: id -> name of the record, or Missing
    focus,      \* the endpoint E whose history is kept: any one of them
    lastFetch,  \* the body returned by the last successful getCached(E) with no
                \*   POST, PUT or DELETE sent against E since
    getOkSince, \* a GET against E succeeded since the last successful post, put
                \*   or delete against E
    mutSince,   \* a post, put or delete against E succeeded since the last
                \*   getCached(E) call
    validLists, \* the lists the collection has held since the caller's last
                \*   successful post, put or delete
    pending,    \* the getCached call of a second caller that has its body from
                \*   get and has not stored it yet, if there is one
    entries,    \* the list a SecurityRatEntryList holds (self.data), or the list
                \*   a list getter returned to a find helper
    returned    \* the value the last call on that list returned

vars == <<cached, cache, headers, cookies, server, focus,
          lastFetch, getOkSince, mutSince, validLists, pending, entries, returned>>

----------------------------------------------------------------------------
(* Bounds of the model *)

MaxId == 1
\* the longest list a SecurityRatEntryList holds
MaxEntries == 2
\* the longest list of requirement skeletons, and the ids of the project types
MaxSkeletons == 3
MaxProjectType == 2

Ids == 1 .. MaxId
Names == {"a", "b"}
Tokens == {"t1"}
ErrTexts == {"bad request"}
\* the tokens of a session whose token rotates
RotatedTokens == {"t1", "t2"}

----------------------------------------------------------------------------
(* Values *)

\* Python None for an id ('id': None in the bodies of the add helpers)
NoneId == 0
\* Python None for an optional string parameter
NoneStr == "None"
\* no CSRF-TOKEN cookie in the session's jar
NoCookie == "NoCookie"
\* the record is not on the server
Missing == "Missing"

\* the resource name of the collection-category helpers
CollectionCategorys == "collectionCategorys"

\* 'collectionCategorys' and 'collectionCategorys/%s' % id_ as path segments
CollectionEndpoint == <<CollectionCategorys>>
ItemEndpoint(id_) == <<CollectionCategorys, id_>>
Endpoints == {CollectionEndpoint} \cup {ItemEndpoint(i) : i \in Ids}

\* decoded bodies: a field mapping or an ordered sequence of them
Dict(id_, name) == [t |-> "dict", id |-> id_, name |-> name]
List(items) == [t |-> "list", items |-> items]
NoValue == [t |-> "novalue"]
TrueValue == [t |-> "bool", b |-> TRUE]

\* raw response contents
JsonText(v) == [enc |-> "json", v |-> v]
RawText(s) == [enc |-> "raw", text |-> s]
NoData == [t |-> "nodata"]

\* cache entries: the key is not in the dict, it maps to None, or to a body
NoKey == [k |-> "nokey"]
NoneEntry == [k |-> "none"]
Entry(v) == [k |-> "value", v |-> v]

\* a getCached(e) call between the return of self.get(e), with body v, and the
\* assignment to self.cache[e]; overtaken: a post, put or delete against e
\* has succeeded in between
NoCall == [k |-> "nocall"]
Pending(e, v, overtaken) == [k |-> "pending", e |-> e, v |-> v, overtaken |-> overtaken]

\* errors
NoError == [kind |-> "none"]
KeyError == [kind |-> "KeyError", key |-> "CSRF-TOKEN"]
JSONDecodeError == [kind |-> "JSONDecodeError"]
ValueError == [kind |-> "ValueError"]
StatusArg(status_code) == [what |-> "status_code", status_code |-> status_code]
ContentArg(content) == [what |-> "content", content |-> content]
\* Exception('Request unsuccessfully: %s' % x): the values the message shows
RequestError(args) ==
    [kind |-> "Exception", fmt |-> "Request unsuccessfully: %s", args |-> args]

----------------------------------------------------------------------------
(* The remote service *)

Statuses == {200, 201, 204, 399, 400, 404, 500}

RECURSIVE ListItems(_, _)
\* the records of the collection with id >= i, in id order
ListItems(srv, i) ==
    IF i > MaxId THEN <<>>
    ELSE IF srv[i] = Missing THEN ListItems(srv, i + 1)
    ELSE <<Dict(i, srv[i])>> \o ListItems(srv, i + 1)

ServerList(srv) == List(ListItems(srv, 1))

FreeIds(srv) == {i \in Ids : srv[i] = Missing}
MinOf(S) == CHOOSE m \in S : \A n \in S : m <= n

\* the service applies a request only when it answers 2xx
Applies(status) == status >= 200 /\ status < 300

\* whether the service can answer the request with a 2xx status
CanServe(method, endpoint, data, srv) ==
    CASE method = "GET" /\ Len(endpoint) = 1 -> TRUE
      [] method = "GET" /\ Len(endpoint) = 2 -> srv[endpoint[2]] # Missing
      [] method = "POST" /\ Len(endpoint) = 1 -> FreeIds(srv) # {} /\ data.t = "dict"
      [] method = "PUT" /\ Len(endpoint) = 1 ->
            data.t = "dict" /\ data.id \in Ids /\ srv[data.id] # Missing
      [] method = "DELETE" /\ Len(endpoint) = 2 -> srv[endpoint[2]] # Missing
      [] OTHER -> FALSE

\* the collection after a request the service answered 2xx
ServerApply(method, endpoint, data, srv) ==
    CASE method = "POST" -> [srv EXCEPT ![MinOf(FreeIds(srv))] = data.name]
      [] method = "PUT" -> [srv EXCEPT ![data.id] = data.name]
      [] method = "DELETE" -> [srv EXCEPT ![endpoint[2]] = Missing]
      [] OTHER -> srv

\* the resource a 200/201 answer carries
ServerBody(method, endpoint, data, srv) ==
    CASE method = "GET" /\ Len(endpoint) = 1 -> ServerList(srv)
      [] method = "GET" /\ Len(endpoint) = 2 -> Dict(endpoint[2], srv[endpoint[2]])
      [] method = "POST" -> Dict(MinOf(FreeIds(srv)), data.name)
      [] method = "PUT" -> Dict(data.id, data.name)
      [] OTHER -> Dict(endpoint[2], srv[endpoint[2]])

\* the statuses the service can answer a request with
StatusesFor(method, endpoint, data, srv) ==
    {s \in Statuses : Applies(s) => CanServe(method, endpoint, data, srv)}

\* the raw content that comes with a status: the resource as JSON with 200 and
\* 201, nothing with 204 and 3xx, an error text with 4xx and 5xx
ContentsFor(s, method, endpoint, data, srv) ==
    IF s \in {200, 201} THEN {JsonText(ServerBody(method, endpoint, data, srv))}
    ELSE IF s < 400 THEN {RawText("")}
    ELSE {RawText(x) : x \in ErrTexts}

\* the answers the service can give to a request: status, raw content, and
\* the collection afterwards.  Only the login's answers set cookies.
Responses(method, endpoint, data, srv) ==
    UNION {{[status |-> s, content |-> c, setCookie |-> NoCookie,
             server |-> IF Applies(s) THEN ServerApply(method, endpoint, data, srv)
                        ELSE srv] :
                c \in ContentsFor(s, method, endpoint, data, srv)} :
            s \in StatusesFor(method, endpoint, data, srv)}

----------------------------------------------------------------------------
(* The connector.  self is the record of the instance's fields; every      *)
(* operation maps self and the service's answer(s) to an outcome: the      *)
(* fields afterwards, the value returned or the error raised, and the      *)
(* requests it sent.                                                       *)

Self == [cached |-> cached, cache |-> cache, headers |-> headers, cookies |-> cookies]

Return(self, value, sent) ==
    [self |-> self, raised |-> FALSE, error |-> NoError, value |-> value, sent |-> sent]
Raise(self, error, sent) ==
    [self |-> self, raised |-> TRUE, error |-> error, value |-> NoValue, sent |-> sent]

\* the requests session as the caller sees it: its cookie jar
Session(jar) == [t |-> "session", cookies |-> jar]

\* return self.session
getRawSession(self) == Return(self, Session(self.cookies), <<>>)

\* the session stores the cookies an answer sets
Receive(self, resp) ==
    IF resp.setCookie = NoCookie THEN self ELSE [self EXCEPT !.cookies = resp.setCookie]

\* a threshold that lets status 400 through
StatusFails_Above400(status_code) == status_code > 400

\* req.status_code >= 400
StatusFails(status_code) == status_code >= 400

\* req.json()
CanDecode(content) == content.enc = "json"
json(content) == content.v

\* a request as the service saw it, and whether the call that sent it
\* returned normally (ok)
Request(method, endpoint, data, token, resp) ==
    [method |-> method, endpoint |-> endpoint, data |-> data, token |-> token,
     status |-> resp.status,
     ok |-> /\ ~StatusFails(resp.status)
            /\ (method # "DELETE" => CanDecode(resp.content))]

\* an invalidation that does nothing
Invalidate_Never(self, endpoint) == self

\* an invalidation that also clears the entries of the endpoints above
Invalidate_Cascade(self, endpoint) ==
    IF self.cached
    THEN [self EXCEPT !.cache = [e \in DOMAIN self.cache |->
            IF self.cache[e] # NoKey /\ Len(e) <= Len(endpoint)
                    /\ SubSeq(endpoint, 1, Len(e)) = e
            THEN NoneEntry ELSE self.cache[e]]]
    ELSE self

\* if self.cached is True and endpoint in self.cache.keys(): self.cache[endpoint] = None
Invalidate(self, endpoint) ==
    IF self.cached /\ self.cache[endpoint] # NoKey
    THEN [self EXCEPT !.cache[endpoint] = NoneEntry]
    ELSE self

\* a get that copies the token into the headers only while they hold None
get_HeaderOnce(self, endpoint, resp) ==
    IF self.cookies = NoCookie THEN Raise(self, KeyError, <<>>)
    ELSE LET s1 == IF self.headers = NoneStr
                   THEN [self EXCEPT !.headers = self.cookies] ELSE self
             sent == <<Request("GET", endpoint, NoData, s1.headers, resp)>>
             s2 == Receive(s1, resp)
         IN  IF resp.status >= 400
             THEN Raise(s2, RequestError(<<StatusArg(resp.status)>>), sent)
             ELSE IF CanDecode(resp.content)
                  THEN Return(s2, json(resp.content), sent)
                  ELSE Raise(s2, JSONDecodeError, sent)

\* a get that answers from the cache when the endpoint has a usable entry
get_ReadsCache(self, endpoint, resp) ==
    IF self.cached /\ self.cache[endpoint].k = "value"
    THEN Return(self, self.cache[endpoint].v, <<>>)
    ELSE IF self.cookies = NoCookie THEN Raise(self, KeyError, <<>>)
    ELSE LET s1 == [self EXCEPT !.headers = self.cookies]
             sent == <<Request("GET", endpoint, NoData, s1.headers, resp)>>
             s2 == Receive(s1, resp)
         IN  IF StatusFails(resp.status)
             THEN Raise(s2, RequestError(<<StatusArg(resp.status)>>), sent)
             ELSE IF CanDecode(resp.content)
                  THEN Return(s2, json(resp.content), sent)
                  ELSE Raise(s2, JSONDecodeError, sent)

get(self, endpoint, resp) ==
    IF self.cookies = NoCookie THEN Raise(self, KeyError, <<>>)
    ELSE LET s1 == [self EXCEPT !.headers = self.cookies]
             sent == <<Request("GET", endpoint, NoData, s1.headers, resp)>>
             s2 == Receive(s1, resp)
         IN  IF StatusFails(resp.status)
             THEN Raise(s2, RequestError(<<StatusArg(resp.status)>>), sent)
             ELSE IF CanDecode(resp.content)
                  THEN Return(s2, json(resp.content), sent)
                  ELSE Raise(s2, JSONDecodeError, sent)

\* a put that clears the entry before it looks at the status
put_InvalidateFirst(self, endpoint, data, resp) ==
    IF self.cookies = NoCookie THEN Raise(self, KeyError, <<>>)
    ELSE LET s1 == [self EXCEPT !.headers = self.cookies]
             sent == <<Request("PUT", endpoint, data, s1.headers, resp)>>
             s3 == Invalidate(Receive(s1, resp), endpoint)
         IN  IF resp.status >= 400
             THEN Raise(s3, RequestError(<<StatusArg(resp.status)>>), sent)
             ELSE IF CanDecode(resp.content)
                  THEN Return(s3, json(resp.content), sent)
                  ELSE Raise(s3, JSONDecodeError, sent)

\* a put that sends the request without a token when the session has none
put_WithoutToken(self, endpoint, data, resp) ==
    LET s1 == [self EXCEPT !.headers = self.cookies]
        sent == <<Request("PUT", endpoint, data, s1.headers, resp)>>
        s2 == Receive(s1, resp)
    IN  IF StatusFails(resp.status)
        THEN Raise(s2, RequestError(<<StatusArg(resp.status)>>), sent)
        ELSE LET s3 == Invalidate(s2, endpoint)
             IN  IF CanDecode(resp.content)
                 THEN Return(s3, json(resp.content), sent)
                 ELSE Raise(s3, JSONDecodeError, sent)

put(self, endpoint, data, resp) ==
    IF self.cookies = NoCookie THEN Raise(self, KeyError, <<>>)
    ELSE LET s1 == [self EXCEPT !.headers = self.cookies]
             sent == <<Request("PUT", endpoint, data, s1.headers, resp)>>
             s2 == Receive(s1, resp)
         IN  IF StatusFails(resp.status)
             THEN Raise(s2, RequestError(<<StatusArg(resp.status)>>), sent)
             ELSE LET s3 == Invalidate(s2, endpoint)
                  IN  IF CanDecode(resp.content)
                      THEN Return(s3, json(resp.content), sent)
                      ELSE Raise(s3, JSONDecodeError, sent)

\* a delete that sends the request a second time when the first one failed
delete_RetriesOnce(self, endpoint, resp) ==
    IF self.cookies = NoCookie THEN Raise(self, KeyError, <<>>)
    ELSE LET s1 == [self EXCEPT !.headers = self.cookies]
             req == Request("DELETE", endpoint, NoData, s1.headers, resp)
             s2 == Receive(s1, resp)
         IN  IF resp.status >= 400
             THEN Raise(s2, RequestError(<<StatusArg(resp.status)>>), <<req, req>>)
             ELSE Return(Invalidate(s2, endpoint), TrueValue, <<req>>)

delete(self, endpoint, resp) ==
    IF self.cookies = NoCookie THEN Raise(self, KeyError, <<>>)
    ELSE LET s1 == [self EXCEPT !.headers = self.cookies]
             sent == <<Request("DELETE", endpoint, NoData, s1.headers, resp)>>
             s2 == Receive(s1, resp)
         IN  IF StatusFails(resp.status)
             THEN Raise(s2, RequestError(<<StatusArg(resp.status)>>), sent)
             ELSE Return(Invalidate(s2, endpoint), TrueValue, sent)

\* a post that reports the status code like the other three
post_ReportsStatus(self, endpoint, data, resp) ==
    IF self.cookies = NoCookie THEN Raise(self, KeyError, <<>>)
    ELSE LET sent == <<Request("POST", endpoint, data, self.cookies, resp)>>
             s2 == Receive(self, resp)
         IN  IF resp.status >= 400
             THEN Raise(s2, RequestError(<<StatusArg(resp.status)>>), sent)
             ELSE LET s3 == Invalidate(s2, endpoint)
                  IN  IF CanDecode(resp.content)
                      THEN Return(s3, json(resp.content), sent)
                      ELSE Raise(s3, JSONDecodeError, sent)

\* a post that forgets the invalidation
post_NoInvalidate(self, endpoint, data, resp) ==
    IF self.cookies = NoCookie THEN Raise(self, KeyError, <<>>)
    ELSE LET sent == <<Request("POST", endpoint, data, self.cookies, resp)>>
             s2 == Receive(self, resp)
         IN  IF resp.status >= 400
             THEN Raise(s2, RequestError(<<ContentArg(resp.content)>>), sent)
             ELSE IF CanDecode(resp.content)
                  THEN Return(s2, json(resp.content), sent)
                  ELSE Raise(s2, JSONDecodeError, sent)

\* a post that decodes the body before it clears the entry
post_DecodeFirst(self, endpoint, data, resp) ==
    IF self.cookies = NoCookie THEN Raise(self, KeyError, <<>>)
    ELSE LET sent == <<Request("POST", endpoint, data, self.cookies, resp)>>
             s2 == Receive(self, resp)
         IN  IF StatusFails(resp.status)
             THEN Raise(s2, RequestError(<<ContentArg(resp.content)>>), sent)
             ELSE IF CanDecode(resp.content)
                  THEN Return(Invalidate(s2, endpoint), json(resp.content), sent)
                  ELSE Raise(s2, JSONDecodeError, sent)

\* post builds its own headers and leaves self.headers alone
post(self, endpoint, data, resp) ==
    IF self.cookies = NoCookie THEN Raise(self, KeyError, <<>>)
    ELSE LET sent == <<Request("POST", endpoint, data, self.cookies, resp)>>
             s2 == Receive(self, resp)
         IN  IF StatusFails(resp.status)
             THEN Raise(s2, RequestError(<<ContentArg(resp.content)>>), sent)
             ELSE LET s3 == Invalidate(s2, endpoint)
                  IN  IF CanDecode(resp.content)
                      THEN Return(s3, json(resp.content), sent)
                      ELSE Raise(s3, JSONDecodeError, sent)

\* a test by truth value: an empty list counts as absent
Usable_Truthy(entry) == entry.k = "value" /\ entry.v # List(<<>>)

\* a usable entry: cacheId in self.cache.keys() and self.cache[cacheId] is not None
Usable(entry) == entry.k = "value"

\* a getCached that ignores self.cached
getCached_AlwaysCache(self, cacheId, resp) ==
    IF Usable(self.cache[cacheId])
    THEN Return(self, self.cache[cacheId].v, <<>>)
    ELSE LET g == get(self, cacheId, resp)
         IN  IF g.raised THEN g
             ELSE Return([g.self EXCEPT !.cache[cacheId] = Entry(g.value)],
                         g.value, g.sent)

\* a getCached that drops the entry when the GET fails
getCached_ClearOnError(self, cacheId, resp) ==
    IF self.cached
    THEN IF Usable(self.cache[cacheId])
         THEN Return(self, self.cache[cacheId].v, <<>>)
         ELSE LET g == get(self, cacheId, resp)
              IN  IF g.raised
                  THEN [g EXCEPT !.self.cache[cacheId] = NoneEntry]
                  ELSE Return([g.self EXCEPT !.cache[cacheId] = Entry(g.value)],
                              g.value, g.sent)
    ELSE get(self, cacheId, resp)

\* a getCached that stores a result only when it is not empty
getCached_SkipEmpty(self, cacheId, resp) ==
    IF self.cached
    THEN IF Usable(self.cache[cacheId])
         THEN Return(self, self.cache[cacheId].v, <<>>)
         ELSE LET g == get(self, cacheId, resp)
              IN  IF g.raised \/ g.value = List(<<>>) THEN g
                  ELSE Return([g.self EXCEPT !.cache[cacheId] = Entry(g.value)],
                              g.value, g.sent)
    ELSE get(self, cacheId, resp)

getCached(self, cacheId, resp) ==
    IF self.cached
    THEN IF Usable(self.cache[cacheId])
         THEN Return(self, self.cache[cacheId].v, <<>>)
         ELSE LET g == get(self, cacheId, resp)
              IN  IF g.raised THEN g
                  ELSE Return([g.self EXCEPT !.cache[cacheId] = Entry(g.value)],
                              g.value, g.sent)
    ELSE get(self, cacheId, resp)

----------------------------------------------------------------------------
(* The login *)

AuthStatuses == {200, 401}

\* the answers of /authentication_config and /authentication
AuthResponses ==
    [status : AuthStatuses, content : {RawText("")}, setCookie : Tokens \cup {NoCookie}]

\* the answers of a login whose handshake may set another token than the last
RotatingAuthResponses ==
    [status : AuthStatuses, content : {RawText("")},
     setCookie : RotatedTokens \cup {NoCookie}]

LoginError(resp) ==
    [kind |-> "Exception", fmt |-> "Login unsuccessfully: Code: %s\nMessage: %s",
     status_code |-> resp.status, content |-> resp.content]

AuthRequest(method, path, token, resp) ==
    [method |-> method, endpoint |-> <<path>>, data |-> NoData, token |-> token,
     status |-> resp.status, ok |-> resp.status = 200]

getConfig(self, resp) ==
    LET sent == <<AuthRequest("GET", "authentication_config", NoneStr, resp)>>
        s1 == Receive(self, resp)
    IN  IF resp.status # 200 THEN Raise(s1, LoginError(resp), sent)
        ELSE Return(s1, NoValue, sent)

\* a login that returns the session instead of True
login_ReturnsSession(self, resp) ==
    IF self.cookies = NoCookie THEN Raise(self, KeyError, <<>>)
    ELSE LET sent == <<AuthRequest("POST", "authentication", self.cookies, resp)>>
             s1 == Receive(self, resp)
         IN  IF resp.status # 200 THEN Raise(s1, LoginError(resp), sent)
             ELSE Return(s1, Session(s1.cookies), sent)

login(self, resp) ==
    IF self.cookies = NoCookie THEN Raise(self, KeyError, <<>>)
    ELSE LET sent == <<AuthRequest("POST", "authentication", self.cookies, resp)>>
             s1 == Receive(self, resp)
         IN  IF resp.status # 200 THEN Raise(s1, LoginError(resp), sent)
             ELSE Return(s1, TrueValue, sent)

\* a doLogin that goes on to the login whatever the handshake answered
doLogin_LoginAnyway(self, resp1, resp2) ==
    LET c == getConfig(self, resp1)
        l == login(c.self, resp2)
    IN  [l EXCEPT !.sent = c.sent \o l.sent]

doLogin(self, resp1, resp2) ==
    LET c == getConfig(self, resp1)
    IN  IF c.raised THEN c
        ELSE LET l == login(c.self, resp2)
             IN  [l EXCEPT !.sent = c.sent \o l.sent]

----------------------------------------------------------------------------
(* The collection-category helpers *)

\* a single-item getter that reads through the cache
getCollectionCategory_Cached(self, id_, resp) ==
    IF id_ = NoneId THEN Raise(self, ValueError, <<>>)
    ELSE getCached(self, ItemEndpoint(id_), resp)

getCollectionCategory(self, id_, resp) ==
    IF id_ = NoneId THEN Raise(self, ValueError, <<>>)
    ELSE get(self, ItemEndpoint(id_), resp)

getCollectionCategories(self, resp) == getCached(self, CollectionEndpoint, resp)

\* the body of addCollectionCategory: the fields given and 'id': None
AddData(name) == Dict(NoneId, name)

addCollectionCategory(self, name, resp) ==
    post(self, CollectionEndpoint, AddData(name), resp)

\* a merge by truth value: an empty string counts as not given
UpdateData_Truthy(data, name) ==
    IF name # NoneStr /\ name # "" THEN [data EXCEPT !.name = name] ELSE data

\* the fetched record with the fields whose parameter is not None overwritten
UpdateData(data, name) ==
    IF name # NoneStr THEN [data EXCEPT !.name = name] ELSE data

\* an update helper that puts the record to the item's own endpoint
updateCollectionCategory_PutsItem(self, id_, name, resp1, resp2) ==
    IF id_ = NoneId THEN Raise(self, ValueError, <<>>)
    ELSE LET g == getCollectionCategory(self, id_, resp1)
         IN  IF g.raised THEN g
             ELSE LET p == put(g.self, ItemEndpoint(id_), UpdateData(g.value, name), resp2)
                  IN  [p EXCEPT !.sent = g.sent \o p.sent]

\* an update helper that puts the fields given when the item cannot be fetched
updateCollectionCategory_PutsAnyway(self, id_, name, resp1, resp2) ==
    IF id_ = NoneId THEN Raise(self, ValueError, <<>>)
    ELSE LET g == getCollectionCategory(self, id_, resp1)
             data == IF g.raised THEN Dict(id_, name) ELSE UpdateData(g.value, name)
             p == put(g.self, CollectionEndpoint, data, resp2)
         IN  [p EXCEPT !.sent = g.sent \o p.sent]

\* resp1 answers the GET of the item, resp2 the PUT of the merged record
updateCollectionCategory(self, id_, name, resp1, resp2) ==
    IF id_ = NoneId THEN Raise(self, ValueError, <<>>)
    ELSE LET g == getCollectionCategory(self, id_, resp1)
         IN  IF g.raised THEN g
             ELSE LET p == put(g.self, CollectionEndpoint, UpdateData(g.value, name), resp2)
                  IN  [p EXCEPT !.sent = g.sent \o p.sent]

\* a delete helper that does not test the id
deleteCollectionCategory_Unchecked(self, id_, resp) ==
    delete(self, ItemEndpoint(id_), resp)

deleteCollectionCategory(self, id_, resp) ==
    IF id_ = NoneId THEN Raise(self, ValueError, <<>>)
    ELSE delete(self, ItemEndpoint(id_), resp)

----------------------------------------------------------------------------
(* SecurityRatEntryList: the list of records a list getter returned *)

\* a key the mapping does not have
Absent == [t |-> "absent"]
\* Python None in a list of records
NoneValue == [t |-> "none"]

\* a record with its 'active' flag, a nested mapping under one key and a
\* nested list of records under another
Record(active, sub, members) ==
    [t |-> "dict", active |-> active, sub |-> sub, members |-> members]

\* records without nested values, and the lists of them
InnerRecords == {Record(a, Absent, Absent) : a \in BOOLEAN}
InnerLists ==
    {List(<<>>)} \cup {List(<<r>>) : r \in InnerRecords}
        \cup {List(<<Record(TRUE, Absent, Absent), r>>) : r \in InnerRecords}

\* the records of a list: with or without a nested mapping and a nested list
Records ==
    {Record(a, sub, members) :
        a \in BOOLEAN, sub \in InnerRecords \cup {Absent}, members \in InnerLists \cup {Absent}}

RECURSIVE SeqsUpTo(_, _)
\* the sequences over S of length n at most
SeqsUpTo(S, n) ==
    IF n = 0 THEN {<<>>}
    ELSE LET shorter == SeqsUpTo(S, n - 1)
         IN  shorter \cup {Append(q, x) : q \in shorter, x \in S}

EntryLists == SeqsUpTo(Records, MaxEntries)

RECURSIVE removeDeactivatedDict(_)
\* None when 'active' is False in the mapping or in a mapping nested in it,
\* the mapping otherwise; only values that are mappings are descended into
removeDeactivatedDict(data) ==
    IF data.active = FALSE THEN NoneValue
    ELSE IF data.sub # Absent
         THEN LET r == removeDeactivatedDict(data.sub)
              IN  IF r = NoneValue THEN NoneValue ELSE [data EXCEPT !.sub = r]
         ELSE data

IsNotNone(x) == x # NoneValue

\* data[k] = self.removeDeactivatedDict(v) for every mapping v, then
\* [x for x in data if x is not None]
removeDeactivatedList(data) ==
    SelectSeq([k \in DOMAIN data |->
                    IF data[k].t = "dict" THEN removeDeactivatedDict(data[k]) ELSE data[k]],
              IsNotNone)

\* self.data = self.removeDeactivatedList(self.data);
\* return SecurityRatEntryList(self.data)
removeDeactivated(data) ==
    [data |-> removeDeactivatedList(data), value |-> List(removeDeactivatedList(data))]

----------------------------------------------------------------------------
(* findRequirementSkeletonWithProjectType, on the list that                *)
(* getRequirementSkeletons returned                                        *)

ProjectTypeIds == 1 .. MaxProjectType

\* {'id': i} in the 'projectTypes' of a skeleton
ProjectTypeRef(i) == [t |-> "dict", id |-> i]

Skeleton(id_, types) == [t |-> "dict", id |-> id_, projectTypes |-> List(types)]

\* the lists of ids without a repetition
IdLists ==
    {q \in SeqsUpTo(ProjectTypeIds, MaxProjectType) :
        \A i \in DOMAIN q, j \in DOMAIN q : q[i] = q[j] => i = j}

ProjectTypeLists == {[k \in DOMAIN q |-> ProjectTypeRef(q[k])] : q \in IdLists}

\* the lists of skeletons the service returns: the k-th has id k
SkeletonLists ==
    UNION {{[k \in 1 .. n |-> Skeleton(k, f[k])] : f \in [1 .. n -> ProjectTypeLists]} :
            n \in 0 .. MaxSkeletons}

\* the values of the projectType parameter: a single id or a list of ids
IntArg(i) == [t |-> "int", v |-> i]
ListArg(q) == [t |-> "list", items |-> q]
ProjectTypeArgs == {IntArg(i) : i \in ProjectTypeIds} \cup {ListArg(q) : q \in IdLists}

\* projectTypeList: [projectType] if not isinstance(projectType, list)
ProjectTypeList(projectType) ==
    IF projectType.t = "list" THEN projectType.items ELSE <<projectType.v>>

\* x in projectTypeList
InList(x, q) == \E j \in DOMAIN q : q[j] = x

RECURSIVE FoundFor(_, _, _)
\* for v1 in v['projectTypes']: if v1['id'] in projectTypeList: found.append(v)
FoundFor(v, types, projectTypeList) ==
    IF types = <<>> THEN <<>>
    ELSE (IF InList(Head(types).id, projectTypeList) THEN <<v>> ELSE <<>>)
            \o FoundFor(v, Tail(types), projectTypeList)

RECURSIVE FoundIn(_, _)
\* for v in data: ...
FoundIn(data, projectTypeList) ==
    IF data = <<>> THEN <<>>
    ELSE FoundFor(Head(data), Head(data).projectTypes.items, projectTypeList)
            \o FoundIn(Tail(data), projectTypeList)

\* data is what self.getRequirementSkeletons() returned
findRequirementSkeletonWithProjectType(data, projectType) ==
    List(FoundIn(data, ProjectTypeList(projectType)))

----------------------------------------------------------------------------
(* The state machine: a single caller makes one call after the other *)

Mutating == {"POST", "PUT", "DELETE"}
\* the calls that read through the cache
Fetches == {"getCached", "getCollectionCategories"}

\* the call sent a POST, PUT or DELETE against endpoint e
MutSent(o, e) ==
    \E i \in DOMAIN o.sent : o.sent[i].method \in Mutating /\ o.sent[i].endpoint = e
\* and the post, put or delete that sent it returned normally
MutOk(o, e) ==
    \E i \in DOMAIN o.sent :
        o.sent[i].method \in Mutating /\ o.sent[i].endpoint = e /\ o.sent[i].ok
\* the call sent a GET against endpoint e and the get returned normally
GetOk(o, e) ==
    \E i \in DOMAIN o.sent :
        o.sent[i].method = "GET" /\ o.sent[i].endpoint = e /\ o.sent[i].ok

Init ==
    /\ cached \in BOOLEAN
    /\ cache = [e \in Endpoints |-> NoKey]
    /\ headers = NoneStr
    /\ cookies = NoCookie
    /\ server \in [Ids -> Names \cup {Missing}]
    /\ focus \in Endpoints
    /\ lastFetch = NoKey
    /\ getOkSince = FALSE
    /\ mutSince = FALSE
    /\ validLists = {ServerList(server)}
    /\ pending = NoCall
    /\ entries = <<>>
    /\ returned = NoValue

\* the pending call after another call with outcome o
Overtake(p, o) ==
    IF p # NoCall /\ MutOk(o, p.e) THEN [p EXCEPT !.overtaken = TRUE] ELSE p

\* the fields, the service's collection srv and the history after a call
\* op(endpoint) with outcome o
Effects(op, endpoint, o, srv) ==
    /\ cached' = o.self.cached
    /\ cache' = o.self.cache
    /\ headers' = o.self.headers
    /\ cookies' = o.self.cookies
    /\ server' = srv
    /\ focus' = focus
    /\ lastFetch' =
            IF MutSent(o, focus) THEN NoKey
            ELSE IF op \in Fetches /\ endpoint = focus /\ ~o.raised THEN Entry(o.value)
            ELSE lastFetch
    /\ getOkSince' =
            IF MutOk(o, focus) THEN FALSE
            ELSE IF GetOk(o, focus) THEN TRUE
            ELSE getOkSince
    /\ mutSince' =
            IF op \in Fetches /\ endpoint = focus THEN FALSE
            ELSE IF MutOk(o, focus) THEN TRUE
            ELSE mutSince
    /\ validLists' = IF \E e \in Endpoints : MutOk(o, e)
                     THEN {ServerList(srv)}
                     ELSE validLists \cup {ServerList(srv)}
    /\ UNCHANGED <<entries, returned>>

\* the caller's call op(endpoint) had outcome o, and the service's collection
\* is srv afterwards
Step(op, endpoint, o, srv) ==
    /\ Effects(op, endpoint, o, srv)
    /\ pending' = Overtake(pending, o)

\* the collection after a call that was given the answer resp
After(o, resp) == IF o.sent = <<>> THEN server ELSE resp.server

\* the answers a helper's request can get; a helper called with id None sends
\* no request and is given the placeholder
Unanswered == [status |-> 500, content |-> RawText(""), setCookie |-> NoCookie,
               server |-> server]
ResponsesTo(method, id_, data) ==
    IF id_ = NoneId THEN {Unanswered}
    ELSE Responses(method, ItemEndpoint(id_), data, server)

\* the bodies the caller gives post and put: a new record and a changed one
DataIn == {Dict(NoneId, "a"), Dict(1, "b")}

GetCachedCall ==
    \E e \in Endpoints : \E r \in Responses("GET", e, NoData, server) :
        LET o == getCached(Self, e, r)
        IN  Step("getCached", e, o, After(o, r))

GetCall ==
    \E e \in Endpoints : \E r \in Responses("GET", e, NoData, server) :
        LET o == get(Self, e, r)
        IN  Step("get", e, o, After(o, r))

PostCall ==
    \E e \in Endpoints, d \in DataIn : \E r \in Responses("POST", e, d, server) :
        LET o == post(Self, e, d, r)
        IN  Step("post", e, o, After(o, r))

PutCall ==
    \E e \in Endpoints, d \in DataIn : \E r \in Responses("PUT", e, d, server) :
        LET o == put(Self, e, d, r)
        IN  Step("put", e, o, After(o, r))

DeleteCall ==
    \E e \in Endpoints : \E r \in Responses("DELETE", e, NoData, server) :
        LET o == delete(Self, e, r)
        IN  Step("delete", e, o, After(o, r))

DoLoginCall ==
    \E r1 \in AuthResponses : \E r2 \in AuthResponses :
        LET o == doLogin(Self, r1, r2)
        IN  Step("doLogin", <<>>, o, server)

GetCollectionCategoryCall ==
    \E id_ \in Ids \cup {NoneId} :
        \E r \in ResponsesTo("GET", id_, NoData) :
            LET o == getCollectionCategory(Self, id_, r)
            IN  Step("getCollectionCategory", ItemEndpoint(id_), o, After(o, r))

GetCollectionCategoriesCall ==
    \E r \in Responses("GET", CollectionEndpoint, NoData, server) :
        LET o == getCollectionCategories(Self, r)
        IN  Step("getCollectionCategories", CollectionEndpoint, o, After(o, r))

AddCollectionCategoryCall ==
    \E name \in Names :
        \E r \in Responses("POST", CollectionEndpoint, AddData(name), server) :
            LET o == addCollectionCategory(Self, name, r)
            IN  Step("addCollectionCategory", CollectionEndpoint, o, After(o, r))

UpdateCollectionCategoryCall ==
    \E id_ \in Ids \cup {NoneId}, name \in Names \cup {NoneStr} :
        \E r1 \in ResponsesTo("GET", id_, NoData) :
            LET g == getCollectionCategory(Self, id_, r1)
            IN  IF g.raised
                THEN Step("updateCollectionCategory", CollectionEndpoint, g, After(g, r1))
                ELSE \E r2 \in Responses("PUT", CollectionEndpoint,
                                         UpdateData(g.value, name), server) :
                        LET o == updateCollectionCategory(Self, id_, name, r1, r2)
                        IN  Step("updateCollectionCategory", CollectionEndpoint, o, r2.server)

DeleteCollectionCategoryCall ==
    \E id_ \in Ids \cup {NoneId} :
        \E r \in ResponsesTo("DELETE", id_, NoData) :
            LET o == deleteCollectionCategory(Self, id_, r)
            IN  Step("deleteCollectionCategory", ItemEndpoint(id_), o, After(o, r))

\* the caller uses the dispatch operations and the cache layer directly
Next ==
    \/ DoLoginCall
    \/ GetCachedCall
    \/ GetCall
    \/ PostCall
    \/ PutCall
    \/ DeleteCall

Spec == Init /\ [][Next]_vars

\* the caller uses the collection-category helpers
NextHelpers ==
    \/ DoLoginCall
    \/ GetCollectionCategoryCall
    \/ GetCollectionCategoriesCall
    \/ AddCollectionCategoryCall
    \/ UpdateCollectionCategoryCall
    \/ DeleteCollectionCategoryCall

SpecHelpers == Init /\ [][NextHelpers]_vars

\* a login after which the session may hold another token than before
ReLoginCall ==
    \E r1 \in RotatingAuthResponses : \E r2 \in RotatingAuthResponses :
        LET o == doLogin(Self, r1, r2)
        IN  Step("doLogin", <<>>, o, server)

GetRawSessionCall ==
    LET o == getRawSession(Self)
    IN  Step("getRawSession", <<>>, o, server)

\* the caller logs in again and again, takes the raw session and uses the
\* dispatch operations
NextSession ==
    \/ ReLoginCall
    \/ GetRawSessionCall
    \/ GetCall
    \/ PostCall
    \/ PutCall
    \/ DeleteCall

SpecSession == Init /\ [][NextSession]_vars

\* a second caller on the same instance is in getCached(E): the entry is not
\* usable, self.get(E) has returned, and the assignment to self.cache[E] is
\* still to come
GetCachedBegin ==
    /\ pending = NoCall
    /\ cached
    /\ ~Usable(cache[focus])
    /\ \E r \in Responses("GET", focus, NoData, server) :
        LET o == get(Self, focus, r)
        IN  /\ ~o.raised
            /\ Effects("get", focus, o, After(o, r))
            /\ pending' = Pending(focus, o.value, FALSE)

\* a second half that drops a body that was overtaken
GetCachedStore_UnlessOvertaken ==
    /\ pending # NoCall
    /\ cache' = IF pending.overtaken THEN cache
                ELSE [cache EXCEPT ![pending.e] = Entry(pending.v)]
    /\ lastFetch' = IF pending.e = focus THEN Entry(pending.v) ELSE lastFetch
    /\ mutSince' = IF pending.e = focus THEN FALSE ELSE mutSince
    /\ pending' = NoCall
    /\ UNCHANGED <<cached, headers, cookies, server, focus, getOkSince, validLists,
                   entries, returned>>

\* the second caller goes on: self.cache[cacheId] = <the body get returned>,
\* and getCached returns it
GetCachedStore ==
    /\ pending # NoCall
    /\ cache' = [cache EXCEPT ![pending.e] = Entry(pending.v)]
    /\ lastFetch' = IF pending.e = focus THEN Entry(pending.v) ELSE lastFetch
    /\ mutSince' = IF pending.e = focus THEN FALSE ELSE mutSince
    /\ pending' = NoCall
    /\ UNCHANGED <<cached, headers, cookies, server, focus, getOkSince, validLists,
                   entries, returned>>

\* two callers on one instance: the first logs in and posts, puts and
\* deletes, and its calls run between the two halves of the second caller's
\* getCached(E)
NextConcurrent ==
    \/ DoLoginCall
    \/ PostCall
    \/ PutCall
    \/ DeleteCall
    \/ GetCachedBegin
    \/ GetCachedStore

SpecConcurrent == Init /\ [][NextConcurrent]_vars

\* a SecurityRatEntryList built from a list of records; the connector is not
\* used
InitEntryList ==
    /\ cached = TRUE
    /\ cache = [e \in Endpoints |-> NoKey]
    /\ headers = NoneStr
    /\ cookies = NoCookie
    /\ server = [i \in Ids |-> Missing]
    /\ focus = CollectionEndpoint
    /\ lastFetch = NoKey
    /\ getOkSince = FALSE
    /\ mutSince = FALSE
    /\ validLists = {ServerList(server)}
    /\ pending = NoCall
    /\ entries \in EntryLists
    /\ returned = NoValue

RemoveDeactivatedCall ==
    /\ entries' = removeDeactivated(entries).data
    /\ returned' = removeDeactivated(entries).value
    /\ UNCHANGED <<cached, cache, headers, cookies, server, focus, lastFetch,
                   getOkSince, mutSince, validLists, pending>>

NextEntryList == RemoveDeactivatedCall

SpecEntryList == InitEntryList /\ [][NextEntryList]_vars

\* getRequirementSkeletons has returned a list of skeletons; the find helper
\* works on that list
InitFind ==
    /\ cached = TRUE
    /\ cache = [e \in Endpoints |-> NoKey]
    /\ headers = NoneStr
    /\ cookies = NoCookie
    /\ server = [i \in Ids |-> Missing]
    /\ focus = CollectionEndpoint
    /\ lastFetch = NoKey
    /\ getOkSince = FALSE
    /\ mutSince = FALSE
    /\ validLists = {ServerList(server)}
    /\ pending = NoCall
    /\ entries \in SkeletonLists
    /\ returned = NoValue

FindRequirementSkeletonCall ==
    \E projectType \in ProjectTypeArgs :
        /\ returned' = findRequirementSkeletonWithProjectType(entries, projectType)
        /\ UNCHANGED <<cached, cache, headers, cookies, server, focus, lastFetch,
                       getOkSince, mutSince, validLists, pending, entries>>

NextFind == FindRequirementSkeletonCall

SpecFind == InitFind /\ [][NextFind]_vars

----------------------------------------------------------------------------
(* Properties.  A property about "every call" is stated over every call the *)
(* caller can make in the state at hand and every answer the service can    *)
(* give to it.                                                              *)

GetAnswers(e) == Responses("GET", e, NoData, server)
GetAnswersAt(e, srv) == Responses("GET", e, NoData, srv)

\* P(m, o, r) holds of every post, put and delete against endpoint m, with
\* outcome o, and of the answer r it was given
AllPosts(m, P(_, _, _)) ==
    \A d \in DataIn : \A r \in Responses("POST", m, d, server) : P(m, post(Self, m, d, r), r)
AllPuts(m, P(_, _, _)) ==
    \A d \in DataIn : \A r \in Responses("PUT", m, d, server) : P(m, put(Self, m, d, r), r)
AllDeletes(m, P(_, _, _)) ==
    \A r \in Responses("DELETE", m, NoData, server) : P(m, delete(Self, m, r), r)
AllGets(m, P(_, _, _)) ==
    \A r \in GetAnswers(m) : P(m, get(Self, m, r), r)
AllMutations(m, P(_, _, _)) == AllPosts(m, P) /\ AllPuts(m, P) /\ AllDeletes(m, P)

\* P holds of some post against endpoint m
SomePost(m, P(_, _, _)) ==
    \E d \in DataIn : \E r \in Responses("POST", m, d, server) : P(m, post(Self, m, d, r), r)
SomePut(m, P(_, _, _)) ==
    \E d \in DataIn : \E r \in Responses("PUT", m, d, server) : P(m, put(Self, m, d, r), r)
SomeDelete(m, P(_, _, _)) ==
    \E r \in Responses("DELETE", m, NoData, server) : P(m, delete(Self, m, r), r)

\* C1: with caching enabled, once getCached(E) has returned and no post, put
\* or delete was sent against E since, getCached(E) returns the same value
\* and sends no request.
CacheHit ==
    (cached /\ lastFetch # NoKey) =>
        \A r \in GetAnswers(focus) :
            LET o == getCached(Self, focus, r)
            IN  ~o.raised /\ o.value = lastFetch.v /\ o.sent = <<>>

\* getCached(E) has returned a body, and a second getCached(E) is answered
\* with it from the cache
CacheHitWitness ==
    /\ cached
    /\ lastFetch # NoKey
    /\ \E r \in GetAnswers(focus) :
            LET o == getCached(Self, focus, r)
            IN  o.value = lastFetch.v /\ o.sent = <<>>

\* C2: with caching enabled, after a successful post, put or delete against
\* exactly E, the next getCached(E) sends a new GET against E.
InvalidationForcesRefetch ==
    (cached /\ mutSince) =>
        \A r \in GetAnswers(focus) :
            LET o == getCached(Self, focus, r)
            IN  /\ Len(o.sent) = 1
                /\ o.sent[1].method = "GET"
                /\ o.sent[1].endpoint = focus

\* an entry that getCached(E) had stored has been cleared by a successful
\* post, put or delete against E, and no getCached(E) was called since
InvalidationWitness ==
    /\ cached
    /\ mutSince
    /\ cache[focus] = NoneEntry

\* C3: the cache holds a usable entry for E only if a GET against E has
\* succeeded since the last successful post, put or delete against E (or since
\* construction).
EntryOnlyAfterGet ==
    Usable(cache[focus]) => getOkSince

\* the entry of E is usable, fetched after another entry was invalidated
EntryOnlyAfterGetWitness ==
    /\ Usable(cache[focus])
    /\ getOkSince
    /\ \E e \in Endpoints : cache[e] = NoneEntry

\* C4: with caching enabled, the list a collection getter returns is one the
\* collection has held since the caller's last successful add, update or
\* delete by id.
NeverStalerThanOwnMutation ==
    cached =>
        \A r \in GetAnswers(CollectionEndpoint) :
            LET o == getCollectionCategories(Self, r)
            IN  ~o.raised => o.value \in validLists

OthersUntouched(m, o, r) ==
    ~o.raised => \A e \in Endpoints \ {m} : o.self.cache[e] = cache[e]

CacheUntouched(m, o, r) == o.self.cache = cache

\* C6: with caching disabled the cache stays empty, getCached is get (one GET
\* per call once the session holds its token), and post, put and delete leave
\* the cache alone.
CacheDisabled ==
    ~cached =>
        /\ \A e \in Endpoints : cache[e] = NoKey
        /\ \A e \in Endpoints : \A r \in GetAnswers(e) :
                LET o == getCached(Self, e, r)
                IN  /\ o = get(Self, e, r)
                    /\ cookies # NoCookie =>
                            /\ Len(o.sent) = 1
                            /\ o.sent[1].method = "GET"
                            /\ o.sent[1].endpoint = e
                    /\ o.self.cache = cache
        /\ \A m \in Endpoints : AllMutations(m, CacheUntouched)

\* with caching disabled, getCached(E) has returned a body, the cache is
\* empty, and getCached(E) goes to the service again
CacheDisabledWitness ==
    /\ ~cached
    /\ lastFetch # NoKey
    /\ cache[focus] = NoKey
    /\ \E r \in GetAnswers(focus) : Len(getCached(Self, focus, r).sent) = 1

RaisesFrom400(m, o, r) ==
    /\ Len(o.sent) = 1
    /\ o.sent[1].status = r.status
    /\ (o.error.kind = "Exception") <=> (r.status >= 400)

\* C7: get, post, put and delete raise the request error exactly when the
\* status of the answer is >= 400.
ErrorThreshold ==
    /\ {400, 404, 500} \subseteq Statuses
    /\ {200, 201, 204} \subseteq Statuses
    /\ \E s \in Statuses : s >= 300 /\ s < 400
    /\ cookies # NoCookie =>
            \A e \in Endpoints : AllGets(e, RaisesFrom400) /\ AllMutations(e, RaisesFrom400)

RaisesOn404(m, o, r) == r.status = 404 /\ o.error.kind = "Exception"

\* the session holds its token, and a put is answered 404 and raises
ErrorThresholdWitness ==
    /\ cookies # NoCookie
    /\ \E e \in Endpoints : SomePut(e, RaisesOn404)

\* C8: a getCached whose GET is answered with a status >= 400 raises the
\* request error and leaves every cache entry as it was.
FailedFetchKeepsCache ==
    \A e \in Endpoints : \A r \in GetAnswers(e) :
        LET o == getCached(Self, e, r)
        IN  (o.sent # <<>> /\ r.status >= 400) =>
                /\ o.raised
                /\ o.error = RequestError(<<StatusArg(r.status)>>)
                /\ o.self.cache = cache

\* the cache holds an invalidated entry, and the getCached that would fill
\* it is answered 500 and raises
FailedFetchWitness ==
    /\ cached
    /\ \E e \in Endpoints :
            /\ cache[e] = NoneEntry
            /\ \E r \in GetAnswers(e) :
                    r.status = 500 /\ getCached(Self, e, r).raised

FailureKeepsCache(m, o, r) ==
    (o.sent # <<>> /\ r.status >= 400) =>
        /\ o.raised
        /\ o.self.cache = cache
        /\ (cached /\ Usable(cache[m])) =>
                \A r2 \in GetAnswers(m) :
                    LET g == getCached(o.self, m, r2)
                    IN  ~g.raised /\ g.value = cache[m].v /\ g.sent = <<>>

\* C9: a post, put or delete answered with a status >= 400 leaves every cache
\* entry as it was, and a usable entry of its endpoint is still a hit.
FailedMutationKeepsCache ==
    \A m \in Endpoints : AllMutations(m, FailureKeepsCache)

RaisesOnFailure(m, o, r) == r.status >= 400 /\ o.raised

\* the cache holds a usable entry, and a delete against its endpoint is
\* answered with a status >= 400 and raises
FailedMutationWitness ==
    /\ cached
    /\ \E m \in Endpoints : Usable(cache[m]) /\ SomeDelete(m, RaisesOnFailure)

ReportsStatus(error, status_code) ==
    error.kind = "Exception" /\ \E i \in DOMAIN error.args : error.args[i] = StatusArg(status_code)
ReportsContent(error, content) ==
    error.kind = "Exception" /\ \E i \in DOMAIN error.args : error.args[i] = ContentArg(content)

FailureReportsStatus(m, o, r) == r.status >= 400 => ReportsStatus(o.error, r.status)
FailureReportsContent(m, o, r) == r.status >= 400 => ReportsContent(o.error, r.content)
FailureReportsContentOnly(m, o, r) ==
    r.status >= 400 => ReportsContent(o.error, r.content) /\ ~ReportsStatus(o.error, r.status)

\* C10 as stated: on a status >= 400 the error of each of get, post, put and
\* delete reports the status code, and the error of post reports the raw
\* content as well.
ErrorsReportStatus ==
    cookies # NoCookie =>
        \A e \in Endpoints :
            /\ AllGets(e, FailureReportsStatus)
            /\ AllMutations(e, FailureReportsStatus)
            /\ AllPosts(e, FailureReportsContent)

\* C10, amended: on a status >= 400 the error of each of get, put and delete
\* reports the status code; the error of post reports the raw content of the
\* answer verbatim and not the status code.
ErrorsReportStatusOrContent ==
    cookies # NoCookie =>
        \A e \in Endpoints :
            /\ AllGets(e, FailureReportsStatus)
            /\ AllPuts(e, FailureReportsStatus)
            /\ AllDeletes(e, FailureReportsStatus)
            /\ AllPosts(e, FailureReportsContentOnly)

ReportsContentOf400(m, o, r) == r.status = 400 /\ ReportsContent(o.error, r.content)

\* the session holds its token, and a post is answered 400 and raises with
\* the content of the answer
PostErrorWitness ==
    /\ cookies # NoCookie
    /\ \E e \in Endpoints : SomePost(e, ReportsContentOf400)

\* the answers a helper ignores when it is called with id None
AnyAnswers == {Unanswered} \cup GetAnswers(CollectionEndpoint)

FailsFast(o) ==
    o.raised /\ o.error = ValueError /\ o.sent = <<>> /\ o.self = Self

\* C11: the single-item get, update and delete helpers, called with id None,
\* raise ValueError, send no request and leave the instance (the cache
\* included) as it was.
MissingIdFailsFast ==
    \A r1 \in AnyAnswers, r2 \in AnyAnswers :
        /\ FailsFast(getCollectionCategory(Self, NoneId, r1))
        /\ FailsFast(deleteCollectionCategory(Self, NoneId, r1))
        /\ \A name \in Names \cup {NoneStr} :
                FailsFast(updateCollectionCategory(Self, NoneId, name, r1, r2))

\* the session holds its token and the cache the list, and a delete helper
\* called with id None raises ValueError without a request
MissingIdWitness ==
    /\ cookies # NoCookie
    /\ Usable(cache[CollectionEndpoint])
    /\ LET o == deleteCollectionCategory(Self, NoneId, Unanswered)
       IN  o.error = ValueError /\ o.sent = <<>> /\ o.self.cache = cache

SendsCurrentToken(m, o, r) ==
    /\ Len(o.sent) = 1
    /\ o.sent[1].token = cookies
    /\ o.sent[1].token # NoneStr

\* C12: the X-CSRF-TOKEN header that get, post, put and delete send is the
\* CSRF-TOKEN cookie the session holds when the call is made, whatever the
\* headers held from an earlier call.
HeaderIsCurrentToken ==
    cookies # NoCookie =>
        \A e \in Endpoints : AllGets(e, SendsCurrentToken) /\ AllMutations(e, SendsCurrentToken)

SendsTokenNotInHeaders(m, o, r) ==
    o.sent[1].token = cookies /\ o.sent[1].token # headers

\* the headers hold the token an earlier call sent, the session holds another
\* one since, and a get, a put and a delete send the one of the session
TokenRotatedWitness ==
    /\ headers \in RotatedTokens
    /\ cookies \in RotatedTokens
    /\ headers # cookies
    /\ \E e \in Endpoints :
            /\ \E r \in GetAnswers(e) : SendsTokenNotInHeaders(e, get(Self, e, r), r)
            /\ SomePut(e, SendsTokenNotInHeaders)
            /\ SomeDelete(e, SendsTokenNotInHeaders)

\* C13: with caching enabled, an empty collection that getCached(E) returned
\* is a cache entry like any other: with no post, put or delete sent against
\* E since, the entry is in the cache and getCached(E) returns the empty
\* collection without a request.
EmptyIsCached ==
    (cached /\ lastFetch = Entry(List(<<>>))) =>
        /\ cache[focus] = Entry(List(<<>>))
        /\ cache[focus] # NoKey /\ cache[focus] # NoneEntry
        /\ \A r \in GetAnswers(focus) :
                LET o == getCached(Self, focus, r)
                IN  ~o.raised /\ o.value = List(<<>>) /\ o.sent = <<>>

\* getCached of the collection has returned the empty list, which the cache
\* holds, and a second getCached returns it without a request
EmptyIsCachedWitness ==
    /\ cached
    /\ focus = CollectionEndpoint
    /\ lastFetch = Entry(List(<<>>))
    /\ cache[focus] = Entry(List(<<>>))
    /\ \E r \in GetAnswers(focus) :
            LET o == getCached(Self, focus, r)
            IN  o.value = List(<<>>) /\ o.sent = <<>>

\* C14: with caching enabled, a getter that has just returned sends no
\* request when it is called again with the same arguments: the list getter
\* and the single-item getter alike.
AllGettersAreCached ==
    [][cached =>
        /\ \A r \in GetAnswers(CollectionEndpoint) :
                LET o == getCollectionCategories(Self, r)
                IN  (~o.raised /\ Step("getCollectionCategories", CollectionEndpoint,
                                       o, After(o, r))) =>
                        \A r2 \in GetAnswersAt(CollectionEndpoint, server') :
                            getCollectionCategories(Self', r2).sent = <<>>
        /\ \A i \in Ids : \A r \in GetAnswers(ItemEndpoint(i)) :
                LET o == getCollectionCategory(Self, i, r)
                IN  (~o.raised /\ Step("getCollectionCategory", ItemEndpoint(i),
                                       o, After(o, r))) =>
                        \A r2 \in GetAnswersAt(ItemEndpoint(i), server') :
                            getCollectionCategory(Self', i, r2).sent = <<>>
      ]_vars

\* the values the caller gives the name parameter of the update helper: a
\* name, the empty string, or None
UpdateNames == Names \cup {"", NoneStr}

\* the requests of an update of record i whose GET was answered with the
\* record fetched: the GET of the item, then the PUT of the collection with
\* the record merged
IsGetThenPut(sent, i, fetched, name) ==
    /\ Len(sent) = 2
    /\ sent[1].method = "GET" /\ sent[1].endpoint = ItemEndpoint(i)
    /\ sent[2].method = "PUT" /\ sent[2].endpoint = CollectionEndpoint
    /\ DOMAIN sent[2].data = DOMAIN fetched
    /\ sent[2].data.t = fetched.t
    /\ sent[2].data.id = fetched.id
    /\ sent[2].data.name = IF name = NoneStr THEN fetched.name ELSE name

\* C15: an update helper given an id sends the GET of the item and then the
\* PUT of the fetched record, in which exactly the fields whose parameter is
\* not None are overwritten.
MergeThenPut ==
    cookies # NoCookie =>
        \A i \in Ids, name \in UpdateNames : \A r1 \in GetAnswers(ItemEndpoint(i)) :
            LET g == get(Self, ItemEndpoint(i), r1)
            IN  ~g.raised =>
                    \A r2 \in Responses("PUT", CollectionEndpoint, g.value, server) :
                        IsGetThenPut(updateCollectionCategory(Self, i, name, r1, r2).sent,
                                     i, g.value, name)

\* the service holds a record named "a"; an update with the name "b" puts
\* the record renamed, an update with None puts it as it was fetched
MergeWitness ==
    /\ cookies # NoCookie
    /\ \E i \in Ids :
        /\ server[i] = "a"
        /\ \E r1 \in GetAnswers(ItemEndpoint(i)) :
            /\ r1.status = 200
            /\ \E r2 \in Responses("PUT", CollectionEndpoint, Dict(i, "b"), server) :
                LET o == updateCollectionCategory(Self, i, "b", r1, r2)
                IN  ~o.raised /\ o.sent[2].data = Dict(i, "b")
            /\ \E r2 \in Responses("PUT", CollectionEndpoint, Dict(i, "a"), server) :
                LET o == updateCollectionCategory(Self, i, NoneStr, r1, r2)
                IN  ~o.raised /\ o.sent[2].data = Dict(i, "a")

\* the request failed: a status >= 400, or a body that req.json() cannot decode
RequestFailed(req, r) ==
    r.status >= 400 \/ (req.method # "DELETE" /\ ~CanDecode(r.content))

OneRequestNoRetry(m, o, r) ==
    /\ Len(o.sent) <= 1
    /\ cookies # NoCookie => Len(o.sent) = 1
    /\ o.sent # <<>> =>
            /\ o.sent[1].endpoint = m
            /\ o.sent[1].status = r.status
            /\ o.raised <=> RequestFailed(o.sent[1], r)
            /\ o.raised => o.value = NoValue /\ o.error # NoError

\* C16: get, post, put and delete send one request per call and never a
\* second one, and a failed request is raised by the call that sent it: it
\* returns no value, not even one the cache holds.
NoRetry ==
    \A e \in Endpoints : AllGets(e, OneRequestNoRetry) /\ AllMutations(e, OneRequestNoRetry)

FailsOnceWith500(m, o, r) == r.status = 500 /\ o.raised /\ Len(o.sent) = 1

\* the cache holds a body for E, and a get and a delete against E that are
\* answered 500 raise after one request
NoRetryWitness ==
    /\ cookies # NoCookie
    /\ \E e \in Endpoints :
            /\ Usable(cache[e])
            /\ \E r \in GetAnswers(e) : FailsOnceWith500(e, get(Self, e, r), r)
            /\ SomeDelete(e, FailsOnceWith500)

\* the call sent exactly one request, with this method, against this endpoint
SentOne(o, method, endpoint) ==
    /\ Len(o.sent) = 1
    /\ o.sent[1].method = method
    /\ o.sent[1].endpoint = endpoint

\* the answers to the PUT of an update whose GET was answered r1
PutAnswers(i, name, r1) ==
    LET g == get(Self, ItemEndpoint(i), r1)
    IN  IF g.raised THEN {Unanswered}
        ELSE Responses("PUT", CollectionEndpoint, UpdateData(g.value, name), server)

HandsOutSession(o) == ~o.raised /\ o.value = Session(o.self.cookies)

KeepsSession(m, o, r) == ~HandsOutSession(o)

\* every other public operation keeps the session to the instance
OthersKeepSession ==
    /\ \A e \in Endpoints :
            /\ AllGets(e, KeepsSession)
            /\ AllMutations(e, KeepsSession)
            /\ \A r \in GetAnswers(e) : ~HandsOutSession(getCached(Self, e, r))
    /\ \A r1 \in RotatingAuthResponses, r2 \in RotatingAuthResponses :
            ~HandsOutSession(doLogin(Self, r1, r2))

\* C18 as stated: no public operation hands the session or its token to the
\* caller.
SessionStaysInside ==
    ~HandsOutSession(getRawSession(Self)) /\ OthersKeepSession

\* C18, amended: getRawSession hands the session to the caller and leaves
\* the instance as it was; no other public operation hands it out.
SessionOnlyByGetRawSession ==
    /\ HandsOutSession(getRawSession(Self))
    /\ getRawSession(Self).self = Self
    /\ getRawSession(Self).sent = <<>>
    /\ OthersKeepSession

\* the session holds a token after a login, and getRawSession hands out the
\* session with it
RawSessionWitness ==
    /\ cookies \in RotatedTokens
    /\ headers = cookies
    /\ getRawSession(Self).value = Session(cookies)

IsHandshake(req) == req.method = "GET" /\ req.endpoint = <<"authentication_config">>
IsLogin(req) == req.method = "POST" /\ req.endpoint = <<"authentication">>

\* C20: doLogin sends the handshake and then the login, each once; an
\* answer other than 200 to either is raised, a failed handshake ends the
\* call before the login is sent, and True is returned only when both were
\* answered 200.
LoginOrder ==
    \A r1 \in RotatingAuthResponses, r2 \in RotatingAuthResponses :
        LET o == doLogin(Self, r1, r2)
        IN  /\ Len(o.sent) \in {1, 2}
            /\ IsHandshake(o.sent[1])
            /\ o.sent[1].status = r1.status
            /\ r1.status # 200 =>
                    o.raised /\ Len(o.sent) = 1 /\ o.error = LoginError(r1)
            /\ Len(o.sent) = 2 =>
                    /\ IsLogin(o.sent[2])
                    /\ o.sent[2].status = r2.status
                    /\ r2.status # 200 => o.raised /\ o.error = LoginError(r2)
            /\ o.raised => o.value = NoValue
            /\ ~o.raised =>
                    /\ o.value = TrueValue
                    /\ Len(o.sent) = 2
                    /\ r1.status = 200 /\ r2.status = 200

\* the session holds the token of an earlier login; one doLogin is answered
\* 200 twice and returns True, another has its handshake answered 401 and
\* raises without sending the login
LoginWitness ==
    /\ cookies \in RotatedTokens
    /\ \E r1 \in RotatingAuthResponses, r2 \in RotatingAuthResponses :
            LET o == doLogin(Self, r1, r2)
            IN  ~o.raised /\ o.value = TrueValue /\ Len(o.sent) = 2
    /\ \E r1 \in RotatingAuthResponses, r2 \in RotatingAuthResponses :
            LET o == doLogin(Self, r1, r2)
            IN  r1.status = 401 /\ r2.status = 200 /\ o.raised /\ Len(o.sent) = 1

\* the second caller stores a body that a successful post, put or delete
\* against its endpoint has overtaken
OvertakenStore ==
    pending # NoCall /\ pending.overtaken /\ pending' = NoCall

\* C19: with two callers on one instance, a getCached(E) whose GET was
\* answered before a post, put or delete against E succeeded, and that stores
\* its body after it, leaves the body fetched before the mutation in the
\* cache, and later getCached(E) calls return it without a request; the cache
\* invariant of a single caller breaks in no other step.
UnsafeInterleaving ==
    [][/\ OvertakenStore =>
            /\ cache'[pending.e] = Entry(pending.v)
            /\ \A r \in GetAnswersAt(pending.e, server') :
                    LET o == getCached(Self', pending.e, r)
                    IN  ~o.raised /\ o.value = pending.v /\ o.sent = <<>>
       /\ (EntryOnlyAfterGet /\ ~EntryOnlyAfterGet') =>
            OvertakenStore /\ pending.e = focus
      ]_vars

\* the cache holds a list for the collection although no GET against it has
\* succeeded since the last successful mutation against it; the list is not
\* the one the service holds, and getCached returns it without a request
UnsafeInterleavingWitness ==
    /\ focus = CollectionEndpoint
    /\ Usable(cache[focus])
    /\ ~getOkSince
    /\ pending = NoCall
    /\ cache[focus].v # ServerList(server)
    /\ \A r \in GetAnswers(focus) :
            LET o == getCached(Self, focus, r)
            IN  o.value = cache[focus].v /\ o.sent = <<>>

RECURSIVE HasDeactivated(_)
\* 'active' is False in the record, in the mapping nested in it, or in a
\* record of the list nested in it
HasDeactivated(d) ==
    \/ d.active = FALSE
    \/ d.sub # Absent /\ HasDeactivated(d.sub)
    \/ d.members # Absent /\ \E i \in DOMAIN d.members.items : HasDeactivated(d.members.items[i])

IsClean(d) == ~HasDeactivated(d)

\* C21: after removeDeactivated no element of the list has 'active' False at
\* any depth, in nested mappings or in nested lists; the elements without a
\* deactivated record are kept, in their order; a second call changes
\* nothing.
RemovesAllDeactivated ==
    LET r == removeDeactivated(entries)
    IN  /\ \A i \in DOMAIN r.data : ~HasDeactivated(r.data[i])
        /\ r.data = SelectSeq(entries, IsClean)
        /\ r.value = List(r.data)
        /\ removeDeactivated(r.data) = r

\* the skeleton has a project type whose id is the one given, or is in the
\* list given
HasProjectType(v, projectType) ==
    \E k \in DOMAIN v.projectTypes.items :
        IF projectType.t = "list"
        THEN \E j \in DOMAIN projectType.items : projectType.items[j] = v.projectTypes.items[k].id
        ELSE v.projectTypes.items[k].id = projectType.v

\* C22: findRequirementSkeletonWithProjectType(p) returns the skeletons of
\* the list with a project type p (or in p), each once and in list order,
\* and no other.
FindsEachMatchOnce ==
    \A projectType \in ProjectTypeArgs :
        LET Matching(v) == HasProjectType(v, projectType)
        IN  findRequirementSkeletonWithProjectType(entries, projectType)
                = List(SelectSeq(entries, Matching))

\* the list getter called on the instance s sends one GET of the collection,
\* whatever the service answers
ListIsFetchedAgain(s, srv) ==
    \A r \in GetAnswersAt(CollectionEndpoint, srv) :
        LET g == getCollectionCategories(s, r)
        IN  /\ Len(g.sent) = 1
            /\ g.sent[1].method = "GET"
            /\ g.sent[1].endpoint = CollectionEndpoint

\* C23: with caching enabled, an add helper and an update helper that return
\* normally have sent their POST or PUT to the collection endpoint, the key
\* of the list getter's entry, and the list getter called next sends a new
\* GET.
HelperMutationRefetchesList ==
    cached =>
        /\ \A name \in Names :
            \A r \in Responses("POST", CollectionEndpoint, AddData(name), server) :
                LET o == addCollectionCategory(Self, name, r)
                IN  ~o.raised =>
                        /\ o.sent[Len(o.sent)].endpoint = CollectionEndpoint
                        /\ ListIsFetchedAgain(o.self, r.server)
        /\ \A id_ \in Ids, name \in Names \cup {NoneStr} :
            \A r1 \in ResponsesTo("GET", id_, NoData) :
                LET g == getCollectionCategory(Self, id_, r1)
                IN  ~g.raised =>
                        \A r2 \in Responses("PUT", CollectionEndpoint,
                                            UpdateData(g.value, name), server) :
                            LET o == updateCollectionCategory(Self, id_, name, r1, r2)
                            IN  ~o.raised =>
                                    /\ o.sent[Len(o.sent)].method = "PUT"
                                    /\ o.sent[Len(o.sent)].endpoint = CollectionEndpoint
                                    /\ ListIsFetchedAgain(o.self, r2.server)

\* the list getter had stored the collection, and an add or an update helper
\* has cleared the entry since: the next list getter sends a request
HelperMutationWitness ==
    /\ cached
    /\ cache[CollectionEndpoint] = NoneEntry
    /\ mutSince
    /\ ListIsFetchedAgain(Self, server)

\* C24: get(E) goes past the cache in both directions: with a session that
\* holds the token it sends one GET against E whether or not E has an entry
\* and returns the body of the answer, and it leaves every entry of the
\* cache as it was, whether it returns or raises.
GetBypassesCache ==
    \A e \in Endpoints : \A r \in GetAnswers(e) :
        LET o == get(Self, e, r)
        IN  /\ o.self.cache = cache
            /\ o.self.cached = cached
            /\ cookies # NoCookie =>
                    /\ Len(o.sent) = 1
                    /\ o.sent[1].method = "GET"
                    /\ o.sent[1].endpoint = e
                    /\ ~o.raised => o.value = json(r.content)

\* E has a usable entry, and a get of E sends a request and returns a body
\* other than the entry's; and a get of an endpoint without an entry
\* returns without storing one
GetBypassWitness ==
    /\ cached
    /\ \E e \in Endpoints : \E r \in GetAnswers(e) :
            LET o == get(Self, e, r)
            IN  /\ Usable(cache[e])
                /\ ~o.raised
                /\ Len(o.sent) = 1
                /\ o.value # cache[e].v
                /\ o.self.cache[e] = cache[e]
    /\ \E e \in Endpoints : \E r \in GetAnswers(e) :
            LET o == get(Self, e, r)
            IN  /\ cache[e] = NoKey
                /\ ~o.raised
                /\ o.self.cache[e] = NoKey

\* the call raised the KeyError of the missing cookie, sent nothing and left
\* the instance as it was
FailsBeforeRequest(m, o, r) ==
    /\ o.raised
    /\ o.error = KeyError
    /\ o.sent = <<>>
    /\ o.self = Self

\* C25: while the session holds no CSRF-TOKEN cookie, every get, post, put,
\* delete and getCached raises before it sends a request and leaves the
\* cache as it was.
NoCookieFailsBeforeRequest ==
    cookies = NoCookie =>
        \A e \in Endpoints :
            /\ AllGets(e, FailsBeforeRequest)
            /\ AllMutations(e, FailsBeforeRequest)
            /\ \A r \in GetAnswers(e) : FailsBeforeRequest(e, getCached(Self, e, r), r)

\* the session holds no cookie, and a getCached with caching enabled and a
\* put raise the KeyError without a request
NoCookieWitness ==
    /\ cookies = NoCookie
    /\ cached
    /\ \E e \in Endpoints : \E r \in GetAnswers(e) :
            LET o == getCached(Self, e, r)
            IN  o.raised /\ o.error = KeyError /\ o.sent = <<>> /\ o.self.cache = cache
    /\ SomePut(focus, FailsBeforeRequest)

\* the answers the PUT of an update helper could be given
PutAnswersAny ==
    UNION {Responses("PUT", CollectionEndpoint, d, server) : d \in DataIn}

\* C26: an update helper whose GET of the item is answered with a status
\* >= 400 raises the error of that GET, sends no PUT, and leaves the cache,
\* the collection's entry included, as it was.
FailedItemGetStopsUpdate ==
    cookies # NoCookie =>
        \A id_ \in Ids, name \in Names \cup {NoneStr} :
            \A r1 \in ResponsesTo("GET", id_, NoData) : \A r2 \in PutAnswersAny :
                LET o == updateCollectionCategory(Self, id_, name, r1, r2)
                IN  r1.status >= 400 =>
                        /\ o.raised
                        /\ o.error = RequestError(<<StatusArg(r1.status)>>)
                        /\ Len(o.sent) = 1
                        /\ o.sent[1].method = "GET"
                        /\ o.sent[1].endpoint = ItemEndpoint(id_)
                        /\ o.self.cache = cache

\* the collection has a usable entry, and an update helper whose GET is
\* answered 404 raises without a PUT
FailedItemGetWitness ==
    /\ cached
    /\ Usable(cache[CollectionEndpoint])
    /\ \E id_ \in Ids, name \in Names : \E r1 \in ResponsesTo("GET", id_, NoData) :
        \E r2 \in PutAnswersAny :
            LET o == updateCollectionCategory(Self, id_, name, r1, r2)
            IN  /\ r1.status = 404
                /\ o.raised
                /\ Len(o.sent) = 1
                /\ o.self.cache[CollectionEndpoint] = cache[CollectionEndpoint]

\* the answer passes the status test and its body is not JSON
Undecodable(r) == r.status < 400 /\ ~CanDecode(r.content)

\* a post or put given such an answer raises the decoding error with the
\* entry of its endpoint, if there was one, already cleared and the other
\* entries as they were
ClearedBeforeDecode(m, o, r) ==
    (o.sent # <<>> /\ Undecodable(r)) =>
        /\ o.raised
        /\ o.error = JSONDecodeError
        /\ (cached /\ cache[m] # NoKey) => o.self.cache[m] = NoneEntry
        /\ (~cached \/ cache[m] = NoKey) => o.self.cache[m] = cache[m]
        /\ \A e \in Endpoints \ {m} : o.self.cache[e] = cache[e]

\* C27: post and put clear the entry of their endpoint once the status is
\* below 400 and before the body is decoded, so a body that cannot be
\* decoded makes the call raise with the entry cleared; a getCached whose
\* body cannot be decoded raises and stores nothing.
InvalidatesBeforeDecoding ==
    \A e \in Endpoints :
        /\ AllPosts(e, ClearedBeforeDecode)
        /\ AllPuts(e, ClearedBeforeDecode)
        /\ \A r \in GetAnswers(e) :
                LET o == getCached(Self, e, r)
                IN  (o.sent # <<>> /\ Undecodable(r)) =>
                        /\ o.raised
                        /\ o.error = JSONDecodeError
                        /\ o.self.cache = cache

\* the call raised on the body with the usable entry of its endpoint cleared
RaisedAndCleared(m, o, r) ==
    /\ Usable(cache[m])
    /\ Undecodable(r)
    /\ o.raised
    /\ o.error = JSONDecodeError
    /\ o.self.cache[m] = NoneEntry

\* E has a usable entry which a post and a put with an empty 204 body clear
\* while raising, and a getCached of an endpoint with a cleared entry gets
\* such a body and leaves the entry cleared
DecodeFailureWitness ==
    /\ cached
    /\ SomePost(focus, RaisedAndCleared)
    /\ SomePut(focus, RaisedAndCleared)
    /\ \E e \in Endpoints : \E r \in GetAnswers(e) :
            LET o == getCached(Self, e, r)
            IN  /\ cache[e] = NoneEntry
                /\ Undecodable(r)
                /\ o.raised
                /\ o.self.cache[e] = NoneEntry

====
